---- MODULE Spec2Model ----
(***************************************************************************)
(* One process of the Binance futures bot: the Typer CLI (app/main.py)     *)
(* or a library client that hands TradeService a logger, driving the       *)
(* asynchronous facade (app/services/trade_service.py) against the remote  *)
(* exchange client.  Texts are tuples of one-character strings so that     *)
(* str.upper() and float() are computed, not assumed.                      *)
(***************************************************************************)
EXTENDS Integers, Sequences, FiniteSets, TLC

VARIABLES pc, caller, settings, opts, state, cmd, service, connections,
          closeCalls, remoteCalls, reply, log, console, result, exc, exitCode,
          trace

vars == <<pc, caller, settings, opts, state, cmd, service, connections,
          closeCalls, remoteCalls, reply, log, console, result, exc, exitCode,
          trace>>

\* ------------------------------------------------------------------ bounds
MaxPositions == 2

\* ------------------------------------------------------------ Python values
\* Python's None where a text is expected (a tuple that is no text).
None == <<"<None>">>

\* bool(x) of an optional text: None and "" are falsy.
Truthy(x) == x # None /\ x # <<>>

\* a or b
Or(a, b) == IF Truthy(a) THEN a ELSE b

LowerLetters == <<"a","b","c","d","e","f","g","h","i","j","k","l","m",
                  "n","o","p","q","r","s","t","u","v","w","x","y","z">>
UpperLetters == <<"A","B","C","D","E","F","G","H","I","J","K","L","M",
                  "N","O","P","Q","R","S","T","U","V","W","X","Y","Z">>

UpperChar(c) ==
    IF \E i \in 1..Len(LowerLetters) : LowerLetters[i] = c
    THEN UpperLetters[CHOOSE i \in 1..Len(LowerLetters) : LowerLetters[i] = c]
    ELSE c

\* str.upper()
Upper(s) == [i \in 1..Len(s) |-> UpperChar(s[i])]

DigitChars == <<"0","1","2","3","4","5","6","7","8","9">>
IsDigit(c) == \E i \in 1..Len(DigitChars) : DigitChars[i] = c
DigitVal(c) == (CHOOSE i \in 1..Len(DigitChars) : DigitChars[i] = c) - 1

RECURSIVE DigitsVal(_)
DigitsVal(s) ==
    IF s = <<>> THEN 0
    ELSE 10 * DigitsVal(SubSeq(s, 1, Len(s) - 1)) + DigitVal(s[Len(s)])

\* float(s) for a decimal text [sign] digits [. digits]: the value is
\* num / 10^exp; any other text raises ValueError (ok = FALSE).
ParseFloat(s) ==
    LET signed == s # <<>> /\ s[1] \in {"-", "+"}
        body   == IF signed THEN Tail(s) ELSE s
        dots   == {i \in 1..Len(body) : body[i] = "."}
        dot    == IF dots = {} THEN Len(body) + 1 ELSE CHOOSE i \in dots : TRUE
        ip     == SubSeq(body, 1, dot - 1)
        fp     == SubSeq(body, dot + 1, Len(body))
        wellformed == /\ Cardinality(dots) <= 1
                      /\ Len(ip) + Len(fp) > 0
                      /\ \A i \in 1..Len(ip) : IsDigit(ip[i])
                      /\ \A i \in 1..Len(fp) : IsDigit(fp[i])
        mag    == DigitsVal(ip \o fp)
    IN IF wellformed
       THEN [ok |-> TRUE,
             num |-> IF signed /\ s[1] = "-" THEN 0 - mag ELSE mag,
             exp |-> Len(fp)]
       ELSE [ok |-> FALSE, num |-> 0, exp |-> 0]

\* ------------------------------------------------------------ binance.enums
SIDE_BUY == <<"B","U","Y">>
SIDE_SELL == <<"S","E","L","L">>
FUTURE_ORDER_TYPE_MARKET == "MARKET"
ORDER_TYPE_LIMIT == "LIMIT"
ORDER_TYPE_STOP_LOSS_LIMIT == "STOP_LOSS_LIMIT"
TIME_IN_FORCE_GTC == "GTC"

\* ------------------------------------------------------------------ inputs
Symbols == { <<"b","t","c">>, <<"E","T","H">> }
Sides == { <<"b","u","y">>, SIDE_BUY, <<"S","e","l","l">>, SIDE_SELL,
           <<"h","o","l","d">> }
\* quantities and prices in thousandths of a unit
Quantities == {1, 250}
Prices == {44900}
StopPrices == {45000}
OrderIds == {12345678, 77}
Keys == { <<"k">> }

Commands == {"market", "limit", "stop-limit", "price", "balance", "orders",
             "position", "cancel"}
PlacementCommands == {"market", "limit", "stop-limit"}

\* The arguments one invocation can carry, per command.
Invocations ==
    [name : {"market"}, symbol : Symbols, side : Sides, quantity : Quantities,
     price : {0}, stop_price : {0}, order_id : {0}]
    \cup
    [name : {"limit"}, symbol : Symbols, side : Sides, quantity : Quantities,
     price : Prices, stop_price : {0}, order_id : {0}]
    \cup
    [name : {"stop-limit"}, symbol : Symbols, side : Sides, quantity : Quantities,
     price : Prices, stop_price : StopPrices, order_id : {0}]
    \cup
    [name : {"price"}, symbol : Symbols, side : {<<>>}, quantity : {0},
     price : {0}, stop_price : {0}, order_id : {0}]
    \cup
    [name : {"balance"}, symbol : {None}, side : {<<>>}, quantity : {0},
     price : {0}, stop_price : {0}, order_id : {0}]
    \cup
    [name : {"orders", "position"}, symbol : Symbols \cup {None, <<>>},
     side : {<<>>}, quantity : {0}, price : {0}, stop_price : {0}, order_id : {0}]
    \cup
    [name : {"cancel"}, symbol : Symbols, side : {<<>>}, quantity : {0},
     price : {0}, stop_price : {0}, order_id : OrderIds]

NoCmd == [name |-> "none", symbol |-> None, side |-> <<>>, quantity |-> 0,
          price |-> 0, stop_price |-> 0, order_id |-> 0]

\* app.core.config.settings: the values the configuration may hold.
Settings == [API_KEY : Keys \cup {<<>>}, SECRET_KEY : Keys \cup {<<>>},
             TESTNET : BOOLEAN]

\* Command-line options of the callback: --testnet/--live, --api-key,
\* --secret-key (None when neither option nor environment variable is set).
Options == [testnet : BOOLEAN, api_key : Keys \cup {None, <<>>},
            secret_key : Keys \cup {None, <<>>}]

\* --------------------------------------------------------- remote collaborator
NoExc == [type |-> "None", msg |-> <<"", <<>>>>]

\* Failures the exchange client raises from a remote call.
RemoteErrors ==
    { [type |-> "BinanceAPIException",
       msg |-> <<"APIError(code=-2011): Unknown order sent.", <<>>>>],
      [type |-> "ClientConnectionError",
       msg |-> <<"Cannot connect to host", <<>>>>] }

ConnectError == [type |-> "BinanceRequestException",
                 msg |-> <<"Invalid Response", <<>>>>]
CloseError == [type |-> "ClientError", msg |-> <<"close failed", <<>>>>]

\* Response dicts (functions whose domain is the dict's keys).
OrderResponses ==
    { [orderId |-> 101, status |-> "NEW"],
      [orderId |-> 102, status |-> "FILLED", price |-> <<"5","0">>],
      [status |-> "NEW"],
      [orderId |-> 103],
      [code |-> 0] }

TickerResponses ==
    { [price |-> <<"5","0",".","5">>], [price |-> <<"0">>],
      [price |-> <<"n","/","a">>], [code |-> 0] }

AccountResponses ==
    { [totalWalletBalance |-> <<"1","0","0",".","2","5">>],
      [totalWalletBalance |-> <<>>], [code |-> 0] }

CancelResponses == { [orderId |-> 77, status |-> "CANCELED"] }

OpenOrder(id) ==
    [orderId |-> id, symbol |-> <<"B","T","C">>, side |-> SIDE_BUY,
     type |-> ORDER_TYPE_LIMIT, origQty |-> <<"1">>, price |-> <<"5","0">>]

OpenOrdersResponses ==
    { <<>>, <<OpenOrder(77)>>, <<OpenOrder(77), OpenOrder(78)>>,
      <<[orderId |-> 79]>> }

Position(sym, amt) ==
    [symbol |-> sym, positionAmt |-> amt, entryPrice |-> <<"5","0">>,
     markPrice |-> <<"5","1">>, unRealizedProfit |-> <<"-","1",".","5">>]

PositionEntries ==
    { Position(<<"B","T","C">>, <<"0",".","0","0","0">>),
      Position(<<"B","T","C">>, <<"0",".","5">>),
      Position(<<"E","T","H">>, <<"-","0",".","0">>),
      Position(<<"E","T","H">>, <<"-","2">>),
      [symbol |-> <<"X","R","P">>] }

RECURSIVE SeqsUpTo(_, _)
SeqsUpTo(S, n) ==
    IF n = 0 THEN { <<>> }
    ELSE LET shorter == SeqsUpTo(S, n - 1)
         IN shorter \cup { Append(q, e) : q \in shorter, e \in S }

PositionResponses == SeqsUpTo(PositionEntries, MaxPositions)

Values(endpoint) ==
    CASE endpoint \in {"futures_create_order", "create_order"} -> OrderResponses
      [] endpoint = "futures_symbol_ticker" -> TickerResponses
      [] endpoint = "futures_account" -> AccountResponses
      [] endpoint = "futures_cancel_order" -> CancelResponses
      [] endpoint = "futures_get_open_orders" -> OpenOrdersResponses
      [] endpoint = "futures_position_information" -> PositionResponses

\* What an awaited remote call can produce: a value, or a raised error.
Replies(endpoint) ==
    [ok : {TRUE}, value : Values(endpoint), err : {NoExc}]
    \cup [ok : {FALSE}, value : {<<>>}, err : RemoteErrors]

NoReply == [ok |-> FALSE, value |-> <<>>, err |-> NoExc]

\* ------------------------------------------------------------------ logging
\* A loguru record: level, the bound extra dict, the message's fixed text and
\* the values interpolated into it.
LogInfo(text, data) ==
    [level |-> "INFO", extra |-> <<>>, text |-> text, data |-> data]
LogWarning(text, data) ==
    [level |-> "WARNING", extra |-> <<>>, text |-> text, data |-> data]
LogError(text, e) ==
    [level |-> "ERROR", extra |-> <<>>, text |-> text, data |-> [e |-> e.msg]]
\* logger.bind(trade=True).info(...)
LogTrade(text, data) ==
    [level |-> "INFO", extra |-> [trade |-> TRUE], text |-> text, data |-> data]

\* The filter of the trades sink: "trade" in record["extra"].
trade_filter(record) == "trade" \in DOMAIN record.extra

\* The filter of the errors sink: level >= ERROR.
error_filter(record) == record.level = "ERROR"

\* The order in which the process did things: connect, log lines (level
\* and text; "TRADE" for a trade-tagged line), remote calls and their
\* replies, prints, close.
Ev(kind, text) == [kind |-> kind, text |-> text]

LogEvents(lines) ==
    [i \in 1..Len(lines) |->
       Ev(IF trade_filter(lines[i]) THEN "TRADE" ELSE lines[i].level,
          lines[i].text)]

PrintEvents(items) == [i \in 1..Len(items) |-> Ev("print", items[i].kind)]

\* ------------------------------------------------------------ TradeService
NoClient == [mode |-> "none", open |-> FALSE]
NoService == [logger |-> FALSE, testnet |-> FALSE, api_key |-> <<>>,
              secret_key |-> <<>>, client |-> NoClient]
NoResult == [set |-> FALSE]

\* TradeService(**kwargs): logger has no default, the other parameters
\* default to the settings.
TradeService_init(kwargs) ==
    IF "logger" \notin DOMAIN kwargs
    THEN [ok |-> FALSE, obj |-> NoService,
          exc |-> [type |-> "TypeError",
                   msg |-> <<"__init__() missing 1 required positional argument: 'logger'",
                             <<>>>>]]
    ELSE [ok |-> TRUE,
          obj |-> [logger |-> kwargs.logger,
                   testnet |-> IF "testnet" \in DOMAIN kwargs
                               THEN kwargs.testnet ELSE settings.TESTNET,
                   api_key |-> IF "api_key" \in DOMAIN kwargs
                               THEN kwargs.api_key ELSE settings.API_KEY,
                   secret_key |-> IF "secret_key" \in DOMAIN kwargs
                                  THEN kwargs.secret_key ELSE settings.SECRET_KEY,
                   client |-> NoClient],
          exc |-> NoExc]

\* __aenter__ with the testnet branch lost: every connection is live.
ConnectMode_live(testnet) == "live"

\* The network the connection of __aenter__ is created on.
ConnectMode(testnet) == IF testnet THEN "testnet" ELSE "live"

\* The side check with the membership test lost: only an empty side is
\* turned away.
ValidSide_any(side) == side # <<>>

\* The side check shared by the three placements.
ValidSide(side) == side \in {SIDE_BUY, SIDE_SELL}

InvalidSide(side) == [type |-> "ValueError", msg |-> <<"Invalid SIDE", side>>]

KeyError(key) == [type |-> "KeyError", msg |-> <<key, <<>>>>]

FloatError(s) == [type |-> "ValueError",
                  msg |-> <<"could not convert string to float", s>>]

\* The remote call each operation awaits.
MarketOrderRequest(symbol, side, quantity) ==
    [endpoint |-> "futures_create_order",
     params |-> [symbol |-> symbol, side |-> side,
                 type |-> FUTURE_ORDER_TYPE_MARKET, quantity |-> quantity]]

LimitOrderRequest(symbol, side, quantity, price) ==
    [endpoint |-> "futures_create_order",
     params |-> [symbol |-> symbol, side |-> side, type |-> ORDER_TYPE_LIMIT,
                 timeInForce |-> TIME_IN_FORCE_GTC, quantity |-> quantity,
                 price |-> price]]

\* The stop-limit order sent through the futures entry point.
StopLimitOrderRequest_futures(symbol, side, quantity, price, stop_price) ==
    [endpoint |-> "futures_create_order",
     params |-> [symbol |-> symbol, side |-> side,
                 type |-> ORDER_TYPE_STOP_LOSS_LIMIT, quantity |-> quantity,
                 price |-> price, stopPrice |-> stop_price]]

StopLimitOrderRequest(symbol, side, quantity, price, stop_price) ==
    [endpoint |-> "create_order",
     params |-> [symbol |-> symbol, side |-> side,
                 type |-> ORDER_TYPE_STOP_LOSS_LIMIT, quantity |-> quantity,
                 price |-> price, stopPrice |-> stop_price]]

PriceRequest(symbol) ==
    [endpoint |-> "futures_symbol_ticker", params |-> [symbol |-> symbol]]

BalanceRequest ==
    [endpoint |-> "futures_account", params |-> <<>>]

CancelRequest(symbol, order_id) ==
    [endpoint |-> "futures_cancel_order",
     params |-> [symbol |-> symbol, orderId |-> order_id]]

OpenOrdersRequest(symbol) ==
    [endpoint |-> "futures_get_open_orders", params |-> [symbol |-> symbol]]

PositionRequest(symbol) ==
    [endpoint |-> "futures_position_information", params |-> [symbol |-> symbol]]

\* The text of the error line of each operation's except clause.
FailText(name) ==
    CASE name = "market" -> "Market order failed"
      [] name = "limit" -> "Limit order failed"
      [] name = "stop-limit" -> "Market order failed"
      [] name = "price" -> "Failed to get price"
      [] name = "balance" -> "Failed to get balance"
      [] name = "cancel" -> "Failed to cancel order"
      [] name = "orders" -> "Failed to get open orders"
      [] name = "position" -> "Failed to get position info"

PlacingText(name) ==
    CASE name = "market" -> "Placing MARKET order"
      [] name = "limit" -> "Placing LIMIT order"
      [] name = "stop-limit" -> "Placing STOP_LIMIT order"

AuditText(name) ==
    CASE name = "market" -> "MARKET"
      [] name = "limit" -> "LIMIT"
      [] name = "stop-limit" -> "STOP_LIMIT"

\* The except clause raising a new error in place of the one it caught.
Handler_wraps(name, e) ==
    [log |-> <<LogError(FailText(name), e)>>,
     exc |-> [type |-> "RuntimeError", msg |-> e.msg]]

\* except Exception as e: self.logger.error(f"...: {e}"); raise
Handler(name, e) == [log |-> <<LogError(FailText(name), e)>>, exc |-> e]

\* ------------------------------------------------------------ the callers
\* The commands of the CLI upper-case their texts; a library client passes
\* its arguments as they are.
Arg(s) == IF caller = "cli" THEN Upper(s) ELSE s

\* symbol.upper() if symbol else None
OptArg(s) == IF caller = "cli" THEN (IF Truthy(s) THEN Upper(s) ELSE None) ELSE s

\* ------------------------------------------- what an operation does on resume
Returned(lines, value) ==
    [log |-> lines, exc |-> NoExc, result |-> [set |-> TRUE, value |-> value]]

Raised(name, e) ==
    [log |-> Handler(name, e).log, exc |-> Handler(name, e).exc,
     result |-> NoResult]

\* The values the audit line of a placement interpolates.
AuditData(name, p, order) ==
    CASE name = "market" ->
           [side |-> p.side, symbol |-> p.symbol, quantity |-> p.quantity,
            orderId |-> order.orderId, status |-> order.status]
      [] name = "limit" ->
           [side |-> p.side, symbol |-> p.symbol, quantity |-> p.quantity,
            price |-> p.price,
            orderId |-> order.orderId, status |-> order.status]
      [] name = "stop-limit" ->
           [side |-> p.side, symbol |-> p.symbol, quantity |-> p.quantity,
            price |-> p.price, stop_price |-> p.stopPrice,
            orderId |-> order.orderId, status |-> order.status]

\* A placement that returns the order without writing the audit line.
PlacementResume_silent(name, req, r) ==
    IF ~r.ok THEN Raised(name, r.err)
    ELSE IF "orderId" \notin DOMAIN r.value THEN Raised(name, KeyError("orderId"))
    ELSE IF "status" \notin DOMAIN r.value THEN Raised(name, KeyError("status"))
    ELSE Returned(<<>>, r.value)

\* A placement that writes its audit line as soon as the call replied,
\* before reading the order's fields.
PlacementResume_audit_first(name, req, r) ==
    IF ~r.ok THEN Raised(name, r.err)
    ELSE IF "orderId" \notin DOMAIN r.value
    THEN [log |-> <<LogTrade(AuditText(name), req.params)>>
                  \o Raised(name, KeyError("orderId")).log,
          exc |-> KeyError("orderId"), result |-> NoResult]
    ELSE IF "status" \notin DOMAIN r.value
    THEN [log |-> <<LogTrade(AuditText(name), req.params)>>
                  \o Raised(name, KeyError("status")).log,
          exc |-> KeyError("status"), result |-> NoResult]
    ELSE Returned(<<LogTrade(AuditText(name), AuditData(name, req.params, r.value))>>,
                  r.value)

\* The three placements after their await.
PlacementResume(name, req, r) ==
    IF ~r.ok THEN Raised(name, r.err)
    ELSE IF "orderId" \notin DOMAIN r.value THEN Raised(name, KeyError("orderId"))
    ELSE IF "status" \notin DOMAIN r.value THEN Raised(name, KeyError("status"))
    ELSE Returned(<<LogTrade(AuditText(name), AuditData(name, req.params, r.value))>>,
                  r.value)

\* get_current_price / get_account_balance after their await: float(d[key]).
FloatResume(name, key, text, req, r) ==
    IF ~r.ok THEN Raised(name, r.err)
    ELSE IF key \notin DOMAIN r.value THEN Raised(name, KeyError(key))
    ELSE IF ~ParseFloat(r.value[key]).ok THEN Raised(name, FloatError(r.value[key]))
    ELSE Returned(<<LogInfo(text, [args |-> req.params,
                                   value |-> ParseFloat(r.value[key])])>>,
                  ParseFloat(r.value[key]))

\* cancel_order, get_open_orders, get_position_info after their await.
PlainResume(name, text, data, r) ==
    IF ~r.ok THEN Raised(name, r.err)
    ELSE Returned(<<LogInfo(text, data)>>, r.value)

Resume(name, req, r) ==
    CASE name \in PlacementCommands -> PlacementResume(name, req, r)
      [] name = "price" ->
           FloatResume(name, "price", "Current price", req, r)
      [] name = "balance" ->
           FloatResume(name, "totalWalletBalance", "Account balance", req, r)
      [] name = "cancel" ->
           PlainResume(name, "Order canceled successfully",
                       [order_id |-> req.params.orderId], r)
      [] name = "orders" ->
           PlainResume(name, "Found open orders",
                       [count |-> IF r.ok THEN Len(r.value) ELSE 0], r)
      [] name = "position" ->
           PlainResume(name, "Position info retrieved",
                       [symbol |-> req.params.symbol], r)

\* ------------------------------------------------------- the CLI's rendering
Shown(items) == [out |-> items, exc |-> NoExc]
Text(t) == [kind |-> "text", text |-> t]

key_fields ==
    <<"orderId", "symbol", "side", "type", "origQty", "price", "stopPrice",
      "status">>

\* _display_order: one row per key field the order carries.
display_order(order) ==
    [kind |-> "table", title |-> "Order Details",
     rows |-> SelectSeq(key_fields, LAMBDA k : k \in DOMAIN order),
     of |-> order]

\* float(p.get("positionAmt", 0))
PositionAmt(p) ==
    IF "positionAmt" \in DOMAIN p THEN ParseFloat(p.positionAmt)
    ELSE [ok |-> TRUE, num |-> 0, exp |-> 0]

\* [p for p in positions if float(p.get("positionAmt", 0)) != 0]
active_positions(positions) ==
    SelectSeq(positions, LAMBDA p : PositionAmt(p).num # 0)

MissingKey(d, keys) ==
    LET missing == {i \in 1..Len(keys) : keys[i] \notin DOMAIN d}
    IN IF missing = {} THEN ""
       ELSE keys[CHOOSE i \in missing : \A j \in missing : i <= j]

\* The first row of a table that lacks one of the keys the row subscripts.
FirstBadRow(rows, keys) ==
    LET bad == {i \in 1..Len(rows) : MissingKey(rows[i], keys) # ""}
    IN IF bad = {} THEN 0 ELSE CHOOSE i \in bad : \A j \in bad : i <= j

\* The body of list_orders after the facade returned.
ShowOrders(orders) ==
    LET keys == <<"orderId", "symbol", "side", "type", "origQty">>
        b == FirstBadRow(orders, keys)
    IN IF orders = <<>> THEN Shown(<<Text("No open orders found")>>)
       ELSE IF b # 0
       THEN [out |-> <<>>, exc |-> KeyError(MissingKey(orders[b], keys))]
       ELSE Shown(<<[kind |-> "table", title |-> "Open Orders", rows |-> orders]>>)

\* The body of get_position after the facade returned.
ShowPositions(positions) ==
    LET unparsed == {i \in 1..Len(positions) : ~PositionAmt(positions[i]).ok}
        active == active_positions(positions)
        keys == <<"symbol", "positionAmt", "entryPrice", "markPrice">>
        b == FirstBadRow(active, keys)
    IN IF unparsed # {}
       THEN [out |-> <<>>,
             exc |-> FloatError(positions[CHOOSE i \in unparsed :
                                   \A j \in unparsed : i <= j].positionAmt)]
       ELSE IF active = <<>> THEN Shown(<<Text("No active positions")>>)
       ELSE IF b # 0
       THEN [out |-> <<>>, exc |-> KeyError(MissingKey(active[b], keys))]
       ELSE Shown(<<[kind |-> "table", title |-> "Active Positions",
                     rows |-> active]>>)

\* What a command prints once its facade call returned value.
Display(c, value) ==
    CASE c.name = "market" ->
           Shown(<<Text("Market Order Placed Successfully"), display_order(value)>>)
      [] c.name = "limit" ->
           Shown(<<Text("Limit Order Placed Successfully"), display_order(value)>>)
      [] c.name = "stop-limit" ->
           Shown(<<Text("Stop-Limit Order Placed Successfully"),
                   display_order(value)>>)
      [] c.name = "price" ->
           Shown(<<[kind |-> "price", symbol |-> Upper(c.symbol), value |-> value]>>)
      [] c.name = "balance" ->
           Shown(<<[kind |-> "balance", value |-> value]>>)
      [] c.name = "orders" -> ShowOrders(value)
      [] c.name = "position" -> ShowPositions(value)
      [] c.name = "cancel" ->
           Shown(<<[kind |-> "canceled", order_id |-> c.order_id]>>)

\* ------------------------------------------------------------------ actions
Init ==
    /\ pc = "start"
    /\ caller = "none"
    /\ settings \in Settings
    /\ opts = [testnet |-> TRUE, api_key |-> None, secret_key |-> None]
    /\ state = [testnet |-> TRUE, api_key |-> <<>>, secret_key |-> <<>>]
    /\ cmd = NoCmd
    /\ service = NoService
    /\ connections = <<>>
    /\ closeCalls = 0
    /\ remoteCalls = <<>>
    /\ reply = NoReply
    /\ log = <<>>
    /\ console = <<>>
    /\ result = NoResult
    /\ exc = NoExc
    /\ exitCode = -1
    /\ trace = <<>>

\* State after the callback stored the options.
CallbackState(o) ==
    [testnet |-> o.testnet,
     api_key |-> Or(o.api_key, settings.API_KEY),
     secret_key |-> Or(o.secret_key, settings.SECRET_KEY)]

\* The credential test with "and" for "or": one key alone passes.
CredentialsMissing_both(st) == ~Truthy(st.api_key) /\ ~Truthy(st.secret_key)

\* if not state.api_key or not state.secret_key
CredentialsMissing(st) == ~Truthy(st.api_key) \/ ~Truthy(st.secret_key)

\* The CLI starts: the callback runs before the subcommand c.
main_callback(o, c) ==
    /\ pc = "start"
    /\ caller' = "cli"
    /\ opts' = o
    /\ cmd' = c
    /\ state' = CallbackState(o)
    /\ IF CredentialsMissing(CallbackState(o))
       THEN /\ console' = console \o <<Text("Error: API credentials not configured"),
                                       Text("Set BINANCE_API_KEY and BINANCE_SECRET_KEY env vars")>>
            /\ trace' = trace \o <<Ev("print", "text"), Ev("print", "text")>>
            /\ exitCode' = 1
            /\ pc' = "done"
       ELSE /\ console' = Append(console, [kind |-> "mode",
                                           mode |-> IF o.testnet THEN "TESTNET" ELSE "LIVE"])
            /\ trace' = Append(trace, Ev("print", "mode"))
            /\ exitCode' = exitCode
            /\ pc' = "command"
    /\ UNCHANGED <<settings, service, connections, closeCalls, remoteCalls,
                   reply, log, result, exc>>

\* A subcommand's execute() reaches its async with: the facade is built
\* from the three keyword arguments the command passes.
execute ==
    /\ pc = "command"
    /\ LET made == TradeService_init([testnet |-> state.testnet,
                                      api_key |-> state.api_key,
                                      secret_key |-> state.secret_key])
       IN IF made.ok
          THEN /\ service' = made.obj
               /\ pc' = "constructed"
               /\ UNCHANGED <<exc, exitCode>>
          ELSE /\ exc' = made.exc
               /\ exitCode' = 1
               /\ pc' = "done"
               /\ UNCHANGED service
    /\ UNCHANGED <<caller, settings, opts, state, cmd, connections, closeCalls,
                   remoteCalls, reply, log, console, result, trace>>

\* The keyword arguments a library client may build the facade with.
ClientKwargs ==
    [logger : {TRUE}, testnet : BOOLEAN, api_key : Keys, secret_key : Keys]
    \cup [logger : {TRUE}, api_key : Keys, secret_key : Keys]

\* A library client builds the facade with a logger and will run one
\* operation c inside async with.
client_scope(kwargs, c) ==
    /\ pc = "start"
    /\ TradeService_init(kwargs).ok
    /\ caller' = "lib"
    /\ cmd' = c
    /\ service' = TradeService_init(kwargs).obj
    /\ pc' = "constructed"
    /\ UNCHANGED <<settings, opts, state, connections, closeCalls, remoteCalls,
                   reply, log, console, result, exc, exitCode, trace>>

\* The line __aenter__ logs once connected.
Connected(testnet) ==
    IF testnet THEN LogInfo("Connected to Binance Futures TESTNET", <<>>)
    ELSE LogWarning("Connected to REAL Binance Futures", <<>>)

\* TradeService.__aenter__: AsyncClient.create returns a client (created)
\* or raises.
aenter(created) ==
    /\ pc = "constructed"
    /\ IF created
       THEN /\ service' = [service EXCEPT
                             !.client = [mode |-> ConnectMode(service.testnet),
                                         open |-> TRUE]]
            /\ connections' = Append(connections, ConnectMode(service.testnet))
            /\ log' = Append(log, Connected(service.testnet))
            /\ trace' = trace \o <<Ev("connect", ConnectMode(service.testnet))>>
                              \o LogEvents(<<Connected(service.testnet)>>)
            /\ pc' = "entered"
            /\ UNCHANGED <<exc, exitCode>>
       ELSE /\ exc' = ConnectError
            /\ exitCode' = IF caller = "cli" THEN 1 ELSE exitCode
            /\ pc' = "done"
            /\ UNCHANGED <<service, connections, log, trace>>
    /\ UNCHANGED <<caller, settings, opts, state, cmd, closeCalls, remoteCalls,
                   reply, console, result>>

\* An operation raised before awaiting anything.
FailEarly(name, e) ==
    /\ log' = log \o Handler(name, e).log
    /\ trace' = trace \o LogEvents(Handler(name, e).log)
    /\ exc' = Handler(name, e).exc
    /\ pc' = "exiting"
    /\ UNCHANGED remoteCalls

\* An operation issues its remote call and suspends.
Await(lines, req) ==
    /\ log' = log \o lines
    /\ remoteCalls' = Append(remoteCalls, req)
    /\ trace' = trace \o LogEvents(lines) \o <<Ev("call", req.endpoint)>>
    /\ pc' = "awaiting"
    /\ UNCHANGED exc

Rest == <<caller, settings, opts, state, cmd, service, connections, closeCalls,
          reply, console, result, exitCode>>

place_futures_market_order ==
    /\ pc = "entered" /\ cmd.name = "market"
    /\ LET symbol == Arg(cmd.symbol)
           side == Arg(cmd.side)
           quantity == cmd.quantity
       IN IF ~ValidSide(side)
          THEN FailEarly("market", InvalidSide(side))
          ELSE Await(<<LogInfo(PlacingText("market"),
                               [side |-> side, quantity |-> quantity,
                                symbol |-> symbol])>>,
                     MarketOrderRequest(symbol, side, quantity))
    /\ UNCHANGED Rest

place_futures_limit_order ==
    /\ pc = "entered" /\ cmd.name = "limit"
    /\ LET symbol == Arg(cmd.symbol)
           side == Arg(cmd.side)
           quantity == cmd.quantity
           price == cmd.price
       IN IF ~ValidSide(side)
          THEN FailEarly("limit", InvalidSide(side))
          ELSE Await(<<LogInfo(PlacingText("limit"),
                               [side |-> side, quantity |-> quantity,
                                symbol |-> symbol, price |-> price])>>,
                     LimitOrderRequest(symbol, side, quantity, price))
    /\ UNCHANGED Rest

place_stop_limit_order ==
    /\ pc = "entered" /\ cmd.name = "stop-limit"
    /\ LET symbol == Arg(cmd.symbol)
           side == Arg(cmd.side)
           quantity == cmd.quantity
           price == cmd.price
           stop_price == cmd.stop_price
       IN IF ~ValidSide(side)
          THEN FailEarly("stop-limit", InvalidSide(side))
          ELSE Await(<<LogInfo(PlacingText("stop-limit"),
                               [side |-> side, quantity |-> quantity,
                                symbol |-> symbol, price |-> price,
                                stop_price |-> stop_price])>>,
                     StopLimitOrderRequest(symbol, side, quantity, price,
                                           stop_price))
    /\ UNCHANGED Rest

get_current_price ==
    /\ pc = "entered" /\ cmd.name = "price"
    /\ Await(<<>>, PriceRequest(Arg(cmd.symbol)))
    /\ UNCHANGED Rest

get_account_balance ==
    /\ pc = "entered" /\ cmd.name = "balance"
    /\ Await(<<>>, BalanceRequest)
    /\ UNCHANGED Rest

cancel_order ==
    /\ pc = "entered" /\ cmd.name = "cancel"
    /\ Await(<<>>, CancelRequest(Arg(cmd.symbol), cmd.order_id))
    /\ UNCHANGED Rest

get_open_orders ==
    /\ pc = "entered" /\ cmd.name = "orders"
    /\ Await(<<>>, OpenOrdersRequest(OptArg(cmd.symbol)))
    /\ UNCHANGED Rest

get_position_info ==
    /\ pc = "entered" /\ cmd.name = "position"
    /\ Await(<<>>, PositionRequest(OptArg(cmd.symbol)))
    /\ UNCHANGED Rest

\* The awaited remote call completes with r; the operation runs to its
\* return or raise, and a CLI command then prints what it got.
resume ==
    /\ pc = "awaiting"
    /\ \E r \in Replies(remoteCalls[Len(remoteCalls)].endpoint) :
         LET req == remoteCalls[Len(remoteCalls)]
             done == Resume(cmd.name, req, r)
             shown == IF caller = "cli" /\ done.exc = NoExc
                      THEN Display(cmd, done.result.value)
                      ELSE [out |-> <<>>, exc |-> done.exc]
         IN /\ reply' = r
            /\ log' = log \o done.log
            /\ result' = done.result
            /\ console' = console \o shown.out
            /\ trace' = trace \o <<Ev("reply", IF r.ok THEN "ok" ELSE "error")>>
                              \o LogEvents(done.log) \o PrintEvents(shown.out)
            /\ exc' = shown.exc
    /\ pc' = "exiting"
    /\ UNCHANGED <<caller, settings, opts, state, cmd, service, connections,
                   closeCalls, remoteCalls, exitCode>>

\* __aexit__ releasing the connection only when the body did not raise.
aexit_on_success(closed) ==
    /\ pc = "exiting"
    /\ closeCalls' = IF exc = NoExc THEN closeCalls + 1 ELSE closeCalls
    /\ service' = [service EXCEPT !.client.open = ~(closed /\ exc = NoExc)]
    /\ log' = IF closed /\ exc = NoExc
              THEN Append(log, LogInfo("Connection Closed", <<>>)) ELSE log
    /\ trace' = IF exc = NoExc
                THEN Append(trace, Ev("close", IF closed THEN "ok" ELSE "error"))
                ELSE trace
    /\ exc' = IF closed \/ exc # NoExc THEN exc ELSE CloseError
    /\ exitCode' = IF caller # "cli" THEN exitCode
                   ELSE IF closed /\ exc = NoExc THEN 0 ELSE 1
    /\ pc' = "done"
    /\ UNCHANGED <<caller, settings, opts, state, cmd, connections, remoteCalls,
                   reply, console, result>>

\* TradeService.__aexit__: close_connection is awaited (closed, or it
\* raises), then the closing line is logged.
aexit(closed) ==
    /\ pc = "exiting"
    /\ closeCalls' = closeCalls + 1
    /\ service' = [service EXCEPT !.client.open = ~closed]
    /\ log' = IF closed THEN Append(log, LogInfo("Connection Closed", <<>>))
              ELSE log
    /\ trace' = trace \o <<Ev("close", IF closed THEN "ok" ELSE "error")>>
                      \o (IF closed THEN <<Ev("INFO", "Connection Closed")>> ELSE <<>>)
    /\ exc' = IF closed THEN exc ELSE CloseError
    /\ exitCode' = IF caller # "cli" THEN exitCode
                   ELSE IF closed /\ exc = NoExc THEN 0 ELSE 1
    /\ pc' = "done"
    /\ UNCHANGED <<caller, settings, opts, state, cmd, connections, remoteCalls,
                   reply, console, result>>

Next ==
    \/ \E o \in Options, c \in Invocations : main_callback(o, c)
    \/ execute
    \/ \E k \in ClientKwargs, c \in Invocations : client_scope(k, c)
    \/ \E created \in BOOLEAN : aenter(created)
    \/ place_futures_market_order
    \/ place_futures_limit_order
    \/ place_stop_limit_order
    \/ get_current_price
    \/ get_account_balance
    \/ cancel_order
    \/ get_open_orders
    \/ get_position_info
    \/ resume
    \/ \E closed \in BOOLEAN : aexit(closed)

Spec == Init /\ [][Next]_vars

\* ------------------------------------------------------------------ claims
\* The operation of the invocation has been called (the scope was entered).
Called == pc \in {"awaiting", "exiting"} \/ (pc = "done" /\ connections # <<>>)

ErrorLines == {i \in 1..Len(log) : log[i].level = "ERROR"}
TradeLines == {i \in 1..Len(log) : "trade" \in DOMAIN log[i].extra}

\* C1: a placement whose side is neither BUY nor SELL once upper-cased
\* raises ValueError out of the operation, with one error line logged, and
\* never issues a remote call: it is never awaiting one and the list of
\* remote calls stays empty to the end of the run.
C1_InvalidSideFailsBeforeAnyRemoteCall ==
    (cmd.name \in PlacementCommands /\ Upper(cmd.side) \notin {SIDE_BUY, SIDE_SELL})
    => /\ pc # "awaiting"
       /\ remoteCalls = <<>>
       /\ \A i \in 1..Len(trace) : trace[i].kind # "call"
       /\ result = NoResult
       /\ pc = "exiting" =>
            /\ exc.type = "ValueError"
            /\ exc.msg = <<"Invalid SIDE", cmd.side>>
            /\ Cardinality(ErrorLines) = 1

\* A stop-limit placement with side "hold" has raised ValueError.
C1_Witness ==
    /\ pc = "exiting"
    /\ cmd.name = "stop-limit"
    /\ cmd.side = <<"h","o","l","d">>
    /\ exc.type = "ValueError"
    /\ remoteCalls = <<>>

\* C2: while the scope is entered the connection has been opened once and
\* not yet closed; when the run is over close_connection has been called
\* exactly once for an opened connection (never for none), whatever the
\* body did.
C2_ScopeClosesExactlyOnce ==
    /\ pc \in {"entered", "awaiting", "exiting"} =>
         Len(connections) = 1 /\ closeCalls = 0
    /\ pc = "done" => closeCalls = Len(connections)
    /\ closeCalls <= 1

\* A run whose remote call failed has ended with the connection closed.
C2_Witness ==
    /\ pc = "done"
    /\ exc \in RemoteErrors
    /\ connections # <<>>
    /\ closeCalls = 1

\* The run ended on a failure of the environment (the exchange or the
\* connection), not of the program.
EnvironmentFailed ==
    exc \in RemoteErrors \cup {ConnectError, CloseError}

CredentialsGiven == Truthy(state.api_key) /\ Truthy(state.secret_key)

\* C3: a finished market command with credentials and a BUY/SELL side (in
\* any casing), not stopped by the environment, has issued exactly one
\* remote call: futures_create_order with the upper-cased symbol, the
\* upper-cased side, type MARKET and the quantity as given.
C3_MarketCommandIssuesOneUpperCasedOrder ==
    (/\ caller = "cli" /\ pc = "done" /\ cmd.name = "market"
     /\ CredentialsGiven
     /\ Upper(cmd.side) \in {SIDE_BUY, SIDE_SELL}
     /\ exc # ConnectError)
    => remoteCalls =
         << [endpoint |-> "futures_create_order",
             params |-> [symbol |-> Upper(cmd.symbol), side |-> Upper(cmd.side),
                         type |-> "MARKET", quantity |-> cmd.quantity]] >>

\* C4: when the remote call of an operation raised, the operation has
\* raised that same error, returned nothing, issued that one remote call
\* only, and logged one error line, its last line, carrying the error's
\* message under the operation's failure text.
C4_RemoteFailureLoggedAndReraised ==
    (pc = "exiting" /\ reply.err \in RemoteErrors)
    => /\ exc = reply.err
       /\ result = NoResult
       /\ Len(remoteCalls) = 1
       /\ Cardinality(ErrorLines) = 1
       /\ Len(log) \in ErrorLines
       /\ log[Len(log)].data.e = reply.err.msg
       /\ log[Len(log)].text = FailText(cmd.name)
       /\ TradeLines = {}

\* A cancel was rejected by the exchange and the rejection is propagating.
C4_Witness ==
    /\ pc = "exiting"
    /\ cmd.name = "cancel"
    /\ reply.err.type = "BinanceAPIException"
    /\ exc = reply.err

\* C5: a finished CLI command with credentials, not stopped by the
\* environment, has opened exactly one connection, issued exactly one
\* remote call, printed its result and closed the connection, in that order.
C5_CommandOpensCallsPrintsCloses ==
    (caller = "cli" /\ pc = "done" /\ CredentialsGiven /\ ~EnvironmentFailed
     /\ (cmd.name \in PlacementCommands => Upper(cmd.side) \in {SIDE_BUY, SIDE_SELL}))
    => /\ Len(connections) = 1
       /\ Len(remoteCalls) = 1
       /\ closeCalls = 1
       /\ \E i, j, k, l \in 1..Len(trace) :
            /\ i < j /\ j < k /\ k < l
            /\ trace[i].kind = "connect"
            /\ trace[j].kind = "call"
            /\ trace[k].kind = "print"
            /\ trace[l].kind = "close"

\* C6: once the CLI callback has run with the API key or the secret key
\* absent from both the options and the settings, the process is over with
\* exit status 1 and the error printed; no facade exists, no connection
\* was opened and no remote call was made.
C6_MissingCredentialsExitOne ==
    (caller = "cli" /\ (\/ ~Truthy(Or(opts.api_key, settings.API_KEY))
                        \/ ~Truthy(Or(opts.secret_key, settings.SECRET_KEY))))
    => /\ pc = "done"
       /\ exitCode = 1
       /\ service = NoService
       /\ connections = <<>>
       /\ remoteCalls = <<>>
       /\ trace = <<Ev("print", "text"), Ev("print", "text")>>
       /\ console[1] = Text("Error: API credentials not configured")

\* The API key came by option but no secret key is configured anywhere.
C6_Witness ==
    /\ caller = "cli"
    /\ cmd.name = "cancel"
    /\ opts.api_key = <<"k">>
    /\ opts.secret_key = None
    /\ settings.SECRET_KEY = <<>>
    /\ exitCode = 1

\* C7: a finished position command with credentials, not stopped by the
\* environment, got the remote response unfiltered from the facade and
\* printed, last, either the table of the response's entries whose amount
\* is non-zero, in response order, or "No active positions" when there is
\* no such entry.
C7_PositionCommandShowsNonZeroEntries ==
    (caller = "cli" /\ pc = "done" /\ cmd.name = "position"
     /\ CredentialsGiven /\ ~EnvironmentFailed)
    => /\ reply.ok
       /\ result = [set |-> TRUE, value |-> reply.value]
       /\ console # <<>>
       /\ LET nonzero == SelectSeq(reply.value,
                                   LAMBDA p : /\ "positionAmt" \in DOMAIN p
                                              /\ ParseFloat(p.positionAmt).num # 0)
          IN console[Len(console)] =
               IF nonzero = <<>> THEN Text("No active positions")
               ELSE [kind |-> "table", title |-> "Active Positions",
                     rows |-> nonzero]

Where(kind) == {i \in 1..Len(trace) : trace[i].kind = kind}

\* C8: a placement that returned has logged exactly one info-level
\* "Placing ..." line before its one remote call and exactly one
\* trade-tagged line after the call's reply, at info level and carrying the
\* order id and the status of the returned order; no error line; and it
\* returned the remote response itself.
C8_PlacementLogsPlacingThenAudit ==
    (cmd.name \in PlacementCommands /\ result.set)
    => LET placing == {i \in 1..Len(trace) :
                         trace[i] = Ev("INFO", PlacingText(cmd.name))}
       IN /\ Cardinality(placing) = 1
          /\ Cardinality(Where("call")) = 1
          /\ Cardinality(Where("reply")) = 1
          /\ Cardinality(Where("TRADE")) = 1
          /\ \A i \in placing, j \in Where("call"), k \in Where("reply"),
                l \in Where("TRADE") : i < j /\ j < k /\ k < l
          /\ Cardinality(TradeLines) = 1
          /\ \A i \in TradeLines :
               /\ log[i].level = "INFO"
               /\ log[i].text = AuditText(cmd.name)
               /\ log[i].data.orderId = reply.value.orderId
               /\ log[i].data.status = reply.value.status
          /\ ErrorLines = {}
          /\ reply.ok
          /\ result.value = reply.value

\* A stop-limit placement has returned a filled order.
C8_Witness ==
    /\ pc = "exiting"
    /\ cmd.name = "stop-limit"
    /\ result.set
    /\ result.value.status = "FILLED"
    /\ TradeLines # {}

\* C9: once called, a placement with a side other than BUY or SELL has sent
\* nothing, and with BUY or SELL it has sent exactly one order: stop-limit
\* through create_order with type STOP_LOSS_LIMIT and the given symbol,
\* side, quantity, price and stop price; limit through futures_create_order
\* with type LIMIT and time in force GTC; market through
\* futures_create_order with type MARKET.
C9_PlacementRequests ==
    (Called /\ cmd.name \in PlacementCommands)
    => LET symbol == Arg(cmd.symbol)
           side == Arg(cmd.side)
       IN IF side \notin {SIDE_BUY, SIDE_SELL} THEN remoteCalls = <<>>
          ELSE /\ Len(remoteCalls) = 1
               /\ cmd.name = "stop-limit" =>
                    remoteCalls[1] =
                      [endpoint |-> "create_order",
                       params |-> [symbol |-> symbol, side |-> side,
                                   type |-> "STOP_LOSS_LIMIT",
                                   quantity |-> cmd.quantity,
                                   price |-> cmd.price,
                                   stopPrice |-> cmd.stop_price]]
               /\ cmd.name = "limit" =>
                    remoteCalls[1] =
                      [endpoint |-> "futures_create_order",
                       params |-> [symbol |-> symbol, side |-> side,
                                   type |-> "LIMIT", timeInForce |-> "GTC",
                                   quantity |-> cmd.quantity,
                                   price |-> cmd.price]]
               /\ cmd.name = "market" =>
                    remoteCalls[1] =
                      [endpoint |-> "futures_create_order",
                       params |-> [symbol |-> symbol, side |-> side,
                                   type |-> "MARKET",
                                   quantity |-> cmd.quantity]]

\* A stop-limit SELL is waiting for the reply of create_order.
C9_Witness ==
    /\ pc = "awaiting"
    /\ cmd.name = "stop-limit"
    /\ cmd.side = SIDE_SELL
    /\ remoteCalls[1].endpoint = "create_order"

\* C10: a connection is live only if the facade's testnet flag is false,
\* and with the flag true every connection is a testnet one; the CLI hands
\* the facade the flag of --testnet/--live, so without --live it never
\* holds a facade or a connection that is live.
C10_LiveOnlyWhenTestnetFalse ==
    /\ \A i \in 1..Len(connections) :
         connections[i] = (IF service.testnet THEN "testnet" ELSE "live")
    /\ service.client.mode = "live" => ~service.testnet
    /\ (caller = "cli" /\ pc # "start") => state.testnet = opts.testnet
    /\ (caller = "cli" /\ opts.testnet) =>
         /\ \A i \in 1..Len(connections) : connections[i] # "live"
         /\ service.client.mode # "live"
         /\ service # NoService => service.testnet

\* A facade built with testnet=True is connected to the test network.
C10_Witness ==
    /\ pc = "entered"
    /\ service.testnet
    /\ connections = <<"testnet">>
    /\ service.client = [mode |-> "testnet", open |-> TRUE]

\* The operation of the invocation is over: it returned (result is set) or
\* it raised.
OperationOver == pc = "exiting" \/ (pc = "done" /\ connections # <<>>)

\* C11: an operation that raised (a rejected side, a failed remote call, or
\* a reply lacking orderId/status, price or totalWalletBalance, or whose
\* number does not parse) has logged exactly one error line, its last line,
\* carrying the raised error's message and written before the connection is
\* closed, and no trade line; an operation that returned has logged no
\* error line; until the operation is over there is neither.  A trade line
\* exists only, and then once, for a placement that returned after its
\* remote call replied without error.
C11_OneErrorLinePerRaiseNoAuditOnFailure ==
    /\ ~OperationOver => ErrorLines = {} /\ TradeLines = {}
    /\ (OperationOver /\ ~result.set) =>
         /\ Cardinality(ErrorLines) = 1
         /\ TradeLines = {}
         /\ \A i \in Where("ERROR"), j \in Where("close") : i < j
         /\ \A i \in Where("call"), j \in Where("ERROR") : i < j
         /\ pc = "exiting" =>
              /\ exc # NoExc
              /\ Len(log) \in ErrorLines
              /\ log[Len(log)].data.e = exc.msg
    /\ (OperationOver /\ result.set) =>
         /\ ErrorLines = {}
         /\ Where("ERROR") = {}
         /\ (pc = "exiting" /\ caller = "lib") => exc = NoExc
    /\ TradeLines # {} =>
         /\ Cardinality(TradeLines) = 1
         /\ cmd.name \in PlacementCommands
         /\ reply.ok
         /\ result.set

\* The order was created but the reply carries no status: the limit
\* placement raised KeyError after its remote call succeeded.
C11_Witness ==
    /\ pc = "exiting"
    /\ cmd.name = "limit"
    /\ reply.ok
    /\ reply.value = [orderId |-> 103]
    /\ exc.type = "KeyError"
    /\ Len(remoteCalls) = 1
    /\ TradeLines = {}

====
